---- MODULE Spec2Model ----
(***************************************************************************)
(* Model of the "Saving and Loading Models" notebook of intro-to-pytorch:  *)
(* the global `model`, the global `state_dict`, the files written by       *)
(* torch.save, and the cells that create, train, save and load networks.   *)
(* Later sections follow torch.save and load_checkpoint statement by       *)
(* statement, and the training loops of the "Inference and Validation"     *)
(* notebook.                                                               *)
(*                                                                         *)
(* Tensors are modelled by their shape and by a tag standing for their     *)
(* numeric content: two tensors are bit-identical iff they have the same   *)
(* shape and the same tag.                                                 *)
(***************************************************************************)
EXTENDS Integers, Sequences, FiniteSets, TLC

VARIABLES
    model,       \* the notebook's global `model` (an fc_model.Network)
    state_dict,  \* the notebook's global `state_dict` (<<>> while unbound)
    fs,          \* the file system: path -> pickled object
    err,         \* the exception that ended the last cell (NoError if none)
    lastOp,      \* the cell that ran last, the file it was given, and, for a
                 \* cell that writes a file, whether the same cell ran before it
                 \* and the type of the file it replaced
    pc,          \* next cell of the in-order run of the notebook
    trained,     \* the network as fc_model.train left it (in-order run)
    snapshot,    \* the parameters `model` had when the last save of a
                 \* checkpoint completed (<<>> before the first save)
    heap,        \* the Network instances constructed so far, by identity
                 \* (Freed once no name is bound to them)
    modelId,     \* the instance the global `model` is bound to
    frame,       \* the torch.save / load_checkpoint call in progress: its
                 \* position, its locals, its reads and writes of the file
    handles,     \* the file objects that are open
    writable,    \* the paths that can be opened for writing
    loop         \* the training loop of the Inference and Validation notebook:
                 \* the cell, the statement reached, and the loop's variables

\* the variables of the specifications that follow the first three
stepVars == <<heap, modelId, frame, handles, writable>>

aux == <<snapshot, stepVars, loop>>

vars == <<model, state_dict, fs, err, lastOp, pc, trained, aux>>

(***************************************************************************)
(* Bounds and program constants                                            *)
(***************************************************************************)
\* tensor contents are tags 0..MaxData
MaxData == 4

DataVals == 0..MaxData

\* checkpoint = {'input_size': 784, 'output_size': 10, ...}
SavedInputSize == 784
SavedOutputSize == 10

\* the hidden widths of the two networks the notebook builds
NotebookHidden1 == <<512, 256, 128>>
NotebookHidden2 == <<400, 200, 100>>

\* the networks the cells are run on: the notebook's two, two that differ
\* from each other in depth alone, and two of another input or output size
Descriptor(input_size, output_size, hidden_layers) ==
    [input_size |-> input_size, output_size |-> output_size, hidden_layers |-> hidden_layers]

Descriptors ==
    {Descriptor(784, 10, NotebookHidden1), Descriptor(784, 10, NotebookHidden2),
     Descriptor(784, 10, <<400>>), Descriptor(784, 10, <<400, 400>>),
     Descriptor(28, 10, <<400>>), Descriptor(784, 2, <<400>>)}

CheckpointPath == "checkpoint.pth"
Paths == {CheckpointPath, "ckpt.bin"}

(***************************************************************************)
(* fc_model.Network and its state dict                                     *)
(***************************************************************************)
\* names of the parameters of hidden_layers[i-1], as state_dict().keys() prints them
HiddenKeys ==
    << [weight |-> "hidden_layers.0.weight", bias |-> "hidden_layers.0.bias"],
       [weight |-> "hidden_layers.1.weight", bias |-> "hidden_layers.1.bias"],
       [weight |-> "hidden_layers.2.weight", bias |-> "hidden_layers.2.bias"] >>

OutputKeys == [weight |-> "output.weight", bias |-> "output.bias"]

\* nn.Linear(in_features, out_features)
Linear(in_features, out_features) ==
    [in_features |-> in_features, out_features |-> out_features]

\* the two parameters of a Linear layer, all of their entries holding v
LinearParams(keys, layer, v) ==
    << [key |-> keys.weight, shape |-> <<layer.out_features, layer.in_features>>, data |-> v],
       [key |-> keys.bias, shape |-> <<layer.out_features>>, data |-> v] >>

RECURSIVE HiddenParams(_, _, _)
HiddenParams(layers, i, v) ==
    IF i > Len(layers) THEN <<>>
    ELSE LinearParams(HiddenKeys[i], layers[i], v) \o HiddenParams(layers, i + 1, v)

\* fc_model.Network(input_size, output_size, hidden_layers), freshly
\* initialised with content v
Network(input_size, output_size, hidden_layers, v) ==
    LET hl == [i \in 1..Len(hidden_layers) |->
                  Linear(IF i = 1 THEN input_size ELSE hidden_layers[i - 1],
                         hidden_layers[i])]
        out == Linear(hidden_layers[Len(hidden_layers)], output_size)
    IN  [hidden_layers |-> hl,
         output |-> out,
         params |-> HiddenParams(hl, 1, v) \o LinearParams(OutputKeys, out, v)]

\* model.state_dict()
StateDictOf(m) == m.params

\* [each.in_features for each in model.hidden_layers]
HiddenWidthsIn(m) == [i \in 1..Len(m.hidden_layers) |-> m.hidden_layers[i].in_features]

\* [each.out_features for each in model.hidden_layers]
HiddenWidths(m) == [i \in 1..Len(m.hidden_layers) |-> m.hidden_layers[i].out_features]

\* the descriptor a network was built from
DescriptorOf(m) ==
    [input_size |-> m.hidden_layers[1].in_features,
     output_size |-> m.output.out_features,
     hidden_layers |-> [i \in 1..Len(m.hidden_layers) |-> m.hidden_layers[i].out_features]]

KeysOf(sd) == {sd[i].key : i \in 1..Len(sd)}

Entry(sd, k) == sd[CHOOSE i \in 1..Len(sd) : sd[i].key = k]

ShapesOf(sd) == [i \in 1..Len(sd) |-> [key |-> sd[i].key, shape |-> sd[i].shape]]

(***************************************************************************)
(* Exceptions                                                              *)
(***************************************************************************)
NoError == [type |-> "None", key |-> "", msgs |-> {}]

Raised(type, key, msgs) == [type |-> type, key |-> key, msgs |-> msgs]

(***************************************************************************)
(* nn.Module.load_state_dict(state_dict), strict                           *)
(***************************************************************************)
\* the messages with the two shapes of a size mismatch exchanged
LoadErrorMsgsSwapped(m, sd) ==
    {[kind |-> "size mismatch", key |-> k,
      from_checkpoint |-> Entry(m.params, k).shape, in_model |-> Entry(sd, k).shape] :
        k \in {x \in KeysOf(m.params) \cap KeysOf(sd) :
                  Entry(sd, x).shape # Entry(m.params, x).shape}}
    \cup {[kind |-> "missing key", key |-> k, from_checkpoint |-> <<>>,
           in_model |-> Entry(m.params, k).shape] : k \in KeysOf(m.params) \ KeysOf(sd)}
    \cup {[kind |-> "unexpected key", key |-> k, from_checkpoint |-> Entry(sd, k).shape,
           in_model |-> <<>>] : k \in KeysOf(sd) \ KeysOf(m.params)}

\* the error messages load_state_dict collects
LoadErrorMsgs(m, sd) ==
    {[kind |-> "size mismatch", key |-> k,
      from_checkpoint |-> Entry(sd, k).shape, in_model |-> Entry(m.params, k).shape] :
        k \in {x \in KeysOf(m.params) \cap KeysOf(sd) :
                  Entry(sd, x).shape # Entry(m.params, x).shape}}
    \cup {[kind |-> "missing key", key |-> k, from_checkpoint |-> <<>>,
           in_model |-> Entry(m.params, k).shape] : k \in KeysOf(m.params) \ KeysOf(sd)}
    \cup {[kind |-> "unexpected key", key |-> k, from_checkpoint |-> Entry(sd, k).shape,
           in_model |-> <<>>] : k \in KeysOf(sd) \ KeysOf(m.params)}

\* the parameters after the call: a parameter whose name and shape match is
\* copied, every other one is left as it was
CopiedParams(m, sd) ==
    [i \in 1..Len(m.params) |->
        LET p == m.params[i] IN
        IF p.key \in KeysOf(sd) /\ Entry(sd, p.key).shape = p.shape
        THEN [p EXCEPT !.data = Entry(sd, p.key).data]
        ELSE p]

load_state_dict(m, sd) ==
    LET msgs == LoadErrorMsgs(m, sd) IN
    [model |-> [m EXCEPT !.params = CopiedParams(m, sd)],
     err |-> IF msgs = {} THEN NoError ELSE Raised("RuntimeError", "", msgs)]

(***************************************************************************)
(* torch.save, torch.load                                                  *)
(***************************************************************************)
NoFile ==
    [type |-> "absent", input_size |-> 0, output_size |-> 0,
     hidden_layers |-> <<>>, state_dict |-> <<>>]

GarbageFile == [NoFile EXCEPT !.type = "garbage"]

\* the pickled state dict alone
PickledStateDict(sd) == [NoFile EXCEPT !.type = "OrderedDict", !.state_dict = sd]

\* the pickled checkpoint dictionary
PickledCheckpoint(input_size, output_size, hidden_layers, sd) ==
    [type |-> "dict", input_size |-> input_size, output_size |-> output_size,
     hidden_layers |-> hidden_layers, state_dict |-> sd]

\* the keys obj[k] finds
ObjectKeys(obj) ==
    IF obj.type = "dict" THEN {"input_size", "output_size", "hidden_layers", "state_dict"}
    ELSE IF obj.type = "OrderedDict" THEN KeysOf(obj.state_dict)
    ELSE {}

\* torch.save(obj, path): the file is replaced by the pickled object
torch_save(files, obj, path) == [files EXCEPT ![path] = obj]

\* torch.load that hands back whatever the file holds unless it is garbage
torch_load_unchecked(files, path) ==
    IF files[path].type = "absent"
    THEN [obj |-> NoFile, err |-> Raised("FileNotFoundError", path, {})]
    ELSE IF files[path].type = "garbage"
    THEN [obj |-> NoFile, err |-> Raised("UnpicklingError", path, {})]
    ELSE [obj |-> files[path], err |-> NoError]

\* torch.load(path)
torch_load(files, path) ==
    IF files[path].type = "absent"
    THEN [obj |-> NoFile, err |-> Raised("FileNotFoundError", path, {})]
    ELSE IF files[path].type \in {"garbage", "partial"}
    THEN [obj |-> NoFile, err |-> Raised("UnpicklingError", path, {})]
    ELSE [obj |-> files[path], err |-> NoError]

(***************************************************************************)
(* The checkpoint cell and load_checkpoint                                 *)
(***************************************************************************)
\* the checkpoint with one width per Linear layer, the output layer included
CheckpointOfEveryLayer(m) ==
    PickledCheckpoint(SavedInputSize, SavedOutputSize,
                      Append(HiddenWidths(m), m.output.out_features), StateDictOf(m))

\* checkpoint = {'input_size': 784, 'output_size': 10,
\*               'hidden_layers': [each.out_features for each in model.hidden_layers],
\*               'state_dict': model.state_dict()}
CheckpointOf(m) ==
    PickledCheckpoint(SavedInputSize, SavedOutputSize, HiddenWidths(m), StateDictOf(m))

\* the subscripts evaluated in the opposite order
LastMissingKey(obj) ==
    IF "state_dict" \notin ObjectKeys(obj) THEN "state_dict"
    ELSE IF "hidden_layers" \notin ObjectKeys(obj) THEN "hidden_layers"
    ELSE IF "output_size" \notin ObjectKeys(obj) THEN "output_size"
    ELSE IF "input_size" \notin ObjectKeys(obj) THEN "input_size"
    ELSE ""

\* the first key of the checkpoint that load_checkpoint reads and does not find
FirstMissingKey(obj) ==
    IF "input_size" \notin ObjectKeys(obj) THEN "input_size"
    ELSE IF "output_size" \notin ObjectKeys(obj) THEN "output_size"
    ELSE IF "hidden_layers" \notin ObjectKeys(obj) THEN "hidden_layers"
    ELSE IF "state_dict" \notin ObjectKeys(obj) THEN "state_dict"
    ELSE ""

\* load_checkpoint that falls back to a new default network when the file
\* cannot be read
load_checkpoint_fallback(files, filepath, v) ==
    LET loaded == torch_load(files, filepath)
        checkpoint == loaded.obj
        fresh == Network(checkpoint.input_size, checkpoint.output_size,
                         checkpoint.hidden_layers, v)
        res == load_state_dict(fresh, checkpoint.state_dict)
    IN  IF loaded.err # NoError
        THEN [returned |-> TRUE,
              model |-> Network(SavedInputSize, SavedOutputSize, NotebookHidden1, v),
              err |-> NoError]
        ELSE IF FirstMissingKey(checkpoint) # ""
        THEN [returned |-> FALSE, model |-> model,
              err |-> Raised("KeyError", FirstMissingKey(checkpoint), {})]
        ELSE IF res.err # NoError
        THEN [returned |-> FALSE, model |-> model, err |-> res.err]
        ELSE [returned |-> TRUE, model |-> res.model, err |-> NoError]

\* load_checkpoint with load_state_dict(..., strict=False) semantics: what
\* fits is copied and the model is returned
load_checkpoint_lenient(files, filepath, v) ==
    LET loaded == torch_load(files, filepath)
        checkpoint == loaded.obj
        fresh == Network(checkpoint.input_size, checkpoint.output_size,
                         checkpoint.hidden_layers, v)
        res == load_state_dict(fresh, checkpoint.state_dict)
    IN  IF loaded.err # NoError
        THEN [returned |-> FALSE, model |-> model, err |-> loaded.err]
        ELSE IF FirstMissingKey(checkpoint) # ""
        THEN [returned |-> FALSE, model |-> model,
              err |-> Raised("KeyError", FirstMissingKey(checkpoint), {})]
        ELSE [returned |-> TRUE, model |-> res.model, err |-> NoError]

\* load_checkpoint(filepath); v is the content the new Network starts with
load_checkpoint(files, filepath, v) ==
    LET loaded == torch_load(files, filepath)
        checkpoint == loaded.obj
        fresh == Network(checkpoint.input_size, checkpoint.output_size,
                         checkpoint.hidden_layers, v)
        res == load_state_dict(fresh, checkpoint.state_dict)
    IN  IF loaded.err # NoError
        THEN [returned |-> FALSE, model |-> model, err |-> loaded.err]
        ELSE IF FirstMissingKey(checkpoint) # ""
        THEN [returned |-> FALSE, model |-> model,
              err |-> Raised("KeyError", FirstMissingKey(checkpoint), {})]
        ELSE IF res.err # NoError
        THEN [returned |-> FALSE, model |-> model, err |-> res.err]
        ELSE [returned |-> TRUE, model |-> res.model, err |-> NoError]

\* the record of the cell that has just run
Ran(op, path) ==
    [op |-> op, path |-> path,
     repeated |-> op \in {"save_state_dict", "save_checkpoint"} /\ lastOp.op = op,
     over |-> IF op \in {"save_state_dict", "save_checkpoint"} THEN fs[path].type ELSE ""]

(***************************************************************************)
(* Cells (without the position of the in-order run)                        *)
(***************************************************************************)
\* model = fc_model.Network(input_size, output_size, hidden_layers)
CreateModel(d, v) ==
    /\ model' = Network(d.input_size, d.output_size, d.hidden_layers, v)
    /\ err' = NoError
    /\ lastOp' = Ran("create", "")
    /\ UNCHANGED <<state_dict, fs>>

\* the optimizer's in-place update reaching the saved file, as it would if
\* the file shared the storage of the live parameters
TrainModelSharedStorage(v) ==
    /\ model' = [model EXCEPT !.params =
                    [i \in 1..Len(model.params) |-> [model.params[i] EXCEPT !.data = v]]]
    /\ err' = NoError
    /\ lastOp' = Ran("train", "")
    /\ fs' = IF fs[CheckpointPath].type = "dict"
             THEN [fs EXCEPT ![CheckpointPath].state_dict = StateDictOf(model')]
             ELSE fs
    /\ UNCHANGED state_dict

\* fc_model.train(model, ...): the optimizer rewrites every parameter in place
TrainModel(v) ==
    /\ model' = [model EXCEPT !.params =
                    [i \in 1..Len(model.params) |-> [model.params[i] EXCEPT !.data = v]]]
    /\ err' = NoError
    /\ lastOp' = Ran("train", "")
    /\ UNCHANGED <<state_dict, fs>>

\* torch.save(model.state_dict(), 'checkpoint.pth')
SaveStateDict ==
    /\ fs' = torch_save(fs, PickledStateDict(StateDictOf(model)), CheckpointPath)
    /\ err' = NoError
    /\ lastOp' = Ran("save_state_dict", CheckpointPath)
    /\ UNCHANGED <<model, state_dict>>

\* state_dict = torch.load('checkpoint.pth')
LoadStateDictFile ==
    LET loaded == torch_load(fs, CheckpointPath) IN
    /\ err' = loaded.err
    /\ state_dict' = IF loaded.err = NoError THEN loaded.obj.state_dict ELSE state_dict
    /\ lastOp' = Ran("torch_load", CheckpointPath)
    /\ UNCHANGED <<model, fs>>

\* model.load_state_dict(state_dict)
LoadIntoModel ==
    /\ state_dict # <<>>
    /\ LET res == load_state_dict(model, state_dict) IN
        /\ model' = res.model
        /\ err' = res.err
    /\ lastOp' = Ran("load_state_dict", "")
    /\ UNCHANGED <<state_dict, fs>>

\* the two statements of the cell below in the other order: the state dict
\* goes into the old network, then `model` is rebound
OtherArchitectureSwapped(d, v) ==
    /\ state_dict # <<>>
    /\ model' = Network(d.input_size, d.output_size, d.hidden_layers, v)
    /\ err' = load_state_dict(model, state_dict).err
    /\ lastOp' = Ran("other_architecture", "")
    /\ UNCHANGED <<state_dict, fs>>

\* model = fc_model.Network(784, 10, hidden_layers); model.load_state_dict(state_dict)
OtherArchitecture(d, v) ==
    /\ state_dict # <<>>
    /\ LET res == load_state_dict(
                      Network(d.input_size, d.output_size, d.hidden_layers, v), state_dict) IN
        /\ model' = res.model
        /\ err' = res.err
    /\ lastOp' = Ran("other_architecture", "")
    /\ UNCHANGED <<state_dict, fs>>

\* the checkpoint appended to the file instead of replacing it
SaveCheckpointAppending ==
    /\ fs' = torch_save(fs, [CheckpointOf(model) EXCEPT !.state_dict =
                                 fs[CheckpointPath].state_dict \o StateDictOf(model)],
                        CheckpointPath)
    /\ err' = NoError
    /\ lastOp' = Ran("save_checkpoint", CheckpointPath)
    /\ UNCHANGED <<model, state_dict>>

\* the checkpoint written only where no file exists yet
SaveCheckpointIfAbsent ==
    /\ fs' = IF fs[CheckpointPath].type = "absent"
             THEN torch_save(fs, CheckpointOf(model), CheckpointPath)
             ELSE fs
    /\ err' = NoError
    /\ lastOp' = Ran("save_checkpoint", CheckpointPath)
    /\ UNCHANGED <<model, state_dict>>

\* checkpoint = {...}; torch.save(checkpoint, 'checkpoint.pth')
SaveCheckpoint ==
    /\ fs' = torch_save(fs, CheckpointOf(model), CheckpointPath)
    /\ err' = NoError
    /\ lastOp' = Ran("save_checkpoint", CheckpointPath)
    /\ UNCHANGED <<model, state_dict>>

\* model = load_checkpoint(filepath)
LoadCheckpoint(filepath, v) ==
    /\ LET res == load_checkpoint(fs, filepath, v) IN
        /\ model' = IF res.returned THEN res.model ELSE model
        /\ err' = res.err
    /\ lastOp' = Ran("load_checkpoint", filepath)
    /\ UNCHANGED <<state_dict, fs>>

(***************************************************************************)
(* The environment: files edited by hand or corrupted                      *)
(***************************************************************************)
\* the descriptor fields of a checkpoint file are rewritten
EditDescriptor(path, d) ==
    /\ fs[path].type = "dict"
    /\ fs' = [fs EXCEPT ![path] = [@ EXCEPT !.input_size = d.input_size,
                                            !.output_size = d.output_size,
                                            !.hidden_layers = d.hidden_layers]]
    /\ lastOp' = Ran("edit", path)
    /\ UNCHANGED <<model, state_dict, err>>

\* the file no longer unpickles
CorruptFile(path) ==
    /\ fs[path].type \in {"dict", "OrderedDict"}
    /\ fs' = [fs EXCEPT ![path] = GarbageFile]
    /\ lastOp' = Ran("corrupt", path)
    /\ UNCHANGED <<model, state_dict, err>>

\* a file that torch.save has opened and not finished writing
PartialFile == [NoFile EXCEPT !.type = "partial"]

\* an instance that no name is bound to any more
Freed == [freed |-> TRUE]

\* no call in progress
IdleFrame ==
    [op |-> "idle", pc |-> "", path |-> "", checkpoint |-> NoFile,
     local |-> 0, base |-> 0, writes |-> 0, reads |-> 0, exc |-> NoError]

\* no training loop is running
NoLoop == [cell |-> "none", pc |-> "idle"]

\* the variables of the later specifications, where they are not followed: no
\* save has completed, no instance is tracked, no call is in progress, no file
\* is open and the notebook's directory is writable
AuxInit ==
    /\ snapshot = <<>>
    /\ heap = <<>>
    /\ modelId = 0
    /\ frame = IdleFrame
    /\ handles = {}
    /\ writable = Paths
    /\ loop = NoLoop

(***************************************************************************)
(* Specification: checkpoints saved from and loaded into any network       *)
(***************************************************************************)
Init ==
    /\ \E v \in DataVals : model = Network(784, 10, NotebookHidden1, v)
    /\ state_dict = <<>>
    /\ fs = [p \in Paths |-> NoFile]
    /\ err = NoError
    /\ lastOp = [op |-> "create", path |-> "", repeated |-> FALSE, over |-> ""]
    /\ pc = "train"
    /\ trained = <<>>
    /\ AuxInit

Next ==
    \/ \E d \in Descriptors, v \in DataVals : CreateModel(d, v) /\ UNCHANGED <<pc, trained, aux>>
    \/ \E v \in DataVals : TrainModel(v) /\ UNCHANGED <<pc, trained, aux>>
    \/ SaveStateDict /\ UNCHANGED <<pc, trained, aux>>
    \/ SaveCheckpoint /\ UNCHANGED <<pc, trained, aux>>
    \/ \E p \in Paths, v \in DataVals : LoadCheckpoint(p, v) /\ UNCHANGED <<pc, trained, aux>>
    \/ \E p \in Paths, d \in Descriptors : EditDescriptor(p, d) /\ UNCHANGED <<pc, trained, aux>>
    \/ \E p \in Paths : CorruptFile(p) /\ UNCHANGED <<pc, trained, aux>>

Spec == Init /\ [][Next]_vars

(***************************************************************************)
(* Specification: the notebook's cells run once, in order                  *)
(***************************************************************************)
\* fc_model.train(model, trainloader, testloader, criterion, optimizer, epochs=2)
NbTrain ==
    /\ pc = "train"
    /\ \E v \in DataVals : TrainModel(v)
    /\ trained' = model'
    /\ pc' = "save_state_dict"
    /\ UNCHANGED aux

NbSaveStateDict ==
    /\ pc = "save_state_dict"
    /\ SaveStateDict
    /\ pc' = "torch_load"
    /\ UNCHANGED <<trained, aux>>

NbLoadStateDictFile ==
    /\ pc = "torch_load"
    /\ LoadStateDictFile
    /\ pc' = "load_state_dict"
    /\ UNCHANGED <<trained, aux>>

NbLoadIntoModel ==
    /\ pc = "load_state_dict"
    /\ LoadIntoModel
    /\ pc' = "other_architecture"
    /\ UNCHANGED <<trained, aux>>

\* model = fc_model.Network(784, 10, [400, 200, 100]); model.load_state_dict(state_dict)
NbOtherArchitecture ==
    /\ pc = "other_architecture"
    /\ \E v \in DataVals : OtherArchitecture(Descriptor(784, 10, NotebookHidden2), v)
    /\ pc' = "save_checkpoint"
    /\ UNCHANGED <<trained, aux>>

NbSaveCheckpoint ==
    /\ pc = "save_checkpoint"
    /\ SaveCheckpoint
    /\ pc' = "load_checkpoint"
    /\ UNCHANGED <<trained, aux>>

\* model = load_checkpoint('checkpoint.pth')
NbLoadCheckpoint ==
    /\ pc = "load_checkpoint"
    /\ \E v \in DataVals : LoadCheckpoint(CheckpointPath, v)
    /\ pc' = "done"
    /\ UNCHANGED <<trained, aux>>

NotebookNext ==
    \/ NbTrain
    \/ NbSaveStateDict
    \/ NbLoadStateDictFile
    \/ NbLoadIntoModel
    \/ NbOtherArchitecture
    \/ NbSaveCheckpoint
    \/ NbLoadCheckpoint

NotebookSpec == Init /\ [][NotebookNext]_vars

(***************************************************************************)
(* Specification: the cells run once, in order, the two architectures of   *)
(* the notebook being any two networks                                     *)
(***************************************************************************)
AnyInit ==
    /\ \E v \in DataVals : model = Network(784, 10, NotebookHidden1, v)
    /\ state_dict = <<>>
    /\ fs = [p \in Paths |-> NoFile]
    /\ err = NoError
    /\ lastOp = [op |-> "create", path |-> "", repeated |-> FALSE, over |-> ""]
    /\ pc = "create"
    /\ trained = <<>>
    /\ AuxInit

\* model = fc_model.Network(input_size, output_size, hidden_layers)
AnyCreateModel ==
    /\ pc = "create"
    /\ \E d \in Descriptors, v \in DataVals : CreateModel(d, v)
    /\ pc' = "train"
    /\ UNCHANGED <<trained, aux>>

\* model = fc_model.Network(...); model.load_state_dict(state_dict)
AnyOtherArchitecture ==
    /\ pc = "other_architecture"
    /\ \E d \in Descriptors, v \in DataVals : OtherArchitecture(d, v)
    /\ pc' = "save_checkpoint"
    /\ UNCHANGED <<trained, aux>>

AnyNext ==
    \/ AnyCreateModel
    \/ NbTrain
    \/ NbSaveStateDict
    \/ NbLoadStateDictFile
    \/ NbLoadIntoModel
    \/ AnyOtherArchitecture
    \/ NbSaveCheckpoint
    \/ NbLoadCheckpoint

AnySpec == AnyInit /\ [][AnyNext]_vars

(***************************************************************************)
(* Claims                                                                  *)
(***************************************************************************)
\* a checkpoint save immediately followed by a load of the file it wrote
SaveThenLoad ==
    /\ lastOp.op = "save_checkpoint"
    /\ lastOp'.op = "load_checkpoint"
    /\ lastOp'.path = CheckpointPath

\* the network a descriptor-only construction from a checkpoint file yields
BuiltFrom(file) == Network(file.input_size, file.output_size, file.hidden_layers, 0)

\* C1: round-trip law. For every model, of any input size, output size and
\* hidden widths, saving it with the checkpoint cell and then calling
\* load_checkpoint on the written file returns a model with the same
\* descriptor and the same parameter values.
C1_RoundTripEveryDescriptor ==
    [][SaveThenLoad =>
          /\ err' = NoError
          /\ DescriptorOf(model') = DescriptorOf(model)
          /\ StateDictOf(model') = StateDictOf(model)]_vars

\* C2: descriptor sufficiency. Every checkpoint the save cell writes holds a
\* descriptor from which alone a model can be built whose parameter shapes
\* are the shapes of the stored state dict; the stored input and output sizes
\* are those of the saved model and the stored hidden widths are its hidden
\* widths in layer order.
C2_DescriptorSufficient ==
    lastOp.op = "save_checkpoint" =>
        LET file == fs[CheckpointPath] IN
        /\ ShapesOf(BuiltFrom(file).params) = ShapesOf(file.state_dict)
        /\ file.input_size = DescriptorOf(model).input_size
        /\ file.output_size = DescriptorOf(model).output_size
        /\ file.hidden_layers = DescriptorOf(model).hidden_layers

\* C4: after the notebook's cells have run in order, checkpoint.pth holds the
\* architecture and the learned parameters of the network fc_model.train
\* trained, and load_checkpoint('checkpoint.pth') has rebuilt that network.
C4_CheckpointHoldsTrainedModel ==
    pc = "done" =>
        /\ fs[CheckpointPath].hidden_layers = HiddenWidths(trained)
        /\ fs[CheckpointPath].state_dict = StateDictOf(trained)
        /\ err = NoError
        /\ model = trained

\* the exception is load_state_dict's RuntimeError
LoadStateDictError(e) == e.type = "RuntimeError" /\ e.msgs # {}

\* ... and it reports a size mismatch
SizeMismatchError(e) ==
    LoadStateDictError(e) /\ \E msg \in e.msgs : msg.kind = "size mismatch"

\* ... and it reports a key that is missing or unexpected
KeyMismatchError(e) ==
    LoadStateDictError(e) /\ \E msg \in e.msgs : msg.kind \in {"missing key", "unexpected key"}

\* cell 10 has just run: a network of descriptor D2 was built and the state
\* dict saved under another descriptor D was loaded into it
LoadedIntoOtherDescriptor ==
    /\ lastOp.op = "other_architecture"
    /\ DescriptorOf(model) # DescriptorOf(trained)

\* C3 as stated: a model built with a descriptor D2 different from D, into
\* which the state dict saved under D is loaded, always ends in a
\* shape-mismatch error.
C3_AlwaysShapeMismatch ==
    LoadedIntoOtherDescriptor => SizeMismatchError(err)

\* C3 as amended: the load never completes; it ends in load_state_dict's
\* RuntimeError, which reports a size mismatch whenever D2 and D have the
\* same number of hidden layers, and missing or unexpected keys whenever
\* they do not.
C3_AlwaysLoadError ==
    LoadedIntoOtherDescriptor =>
        /\ LoadStateDictError(err)
        /\ Len(model.hidden_layers) = Len(trained.hidden_layers) => SizeMismatchError(err)
        /\ Len(model.hidden_layers) # Len(trained.hidden_layers) => KeyMismatchError(err)

\* C3 witness: a load into a network of another depth has failed on the
\* keys alone, every shared parameter having the same shape
C3_Witness ==
    /\ LoadedIntoOtherDescriptor
    /\ KeyMismatchError(err)
    /\ ~SizeMismatchError(err)

\* a checkpoint file whose descriptor does not give the shapes of its blob
Inconsistent(file) ==
    /\ file.type = "dict"
    /\ ShapesOf(BuiltFrom(file).params) # ShapesOf(file.state_dict)

\* load_checkpoint is called on an inconsistent checkpoint file
LoadOfInconsistent ==
    /\ lastOp'.op = "load_checkpoint"
    /\ Inconsistent(fs[lastOp'.path])

\* C5 as stated: load_checkpoint on a file whose descriptor and blob are
\* inconsistent fails with a shape-mismatch error and returns no model.
C5_InconsistentShapeMismatch ==
    [][LoadOfInconsistent => SizeMismatchError(err') /\ model' = model]_vars

\* C5 as amended: load_checkpoint on such a file fails with
\* load_state_dict's RuntimeError and returns no model (nothing is truncated
\* or padded to fit); the error reports a size mismatch, or, when descriptor
\* and blob differ in the number of layers, missing or unexpected keys.
C5_InconsistentLoadError ==
    [][LoadOfInconsistent =>
          /\ SizeMismatchError(err') \/ KeyMismatchError(err')
          /\ Len(fs[lastOp'.path].state_dict) = Len(BuiltFrom(fs[lastOp'.path]).params)
                => SizeMismatchError(err')
          /\ model' = model]_vars

\* C5 witness: load_checkpoint has failed on a file whose hidden_layers
\* were edited to another depth
C5_Witness ==
    /\ lastOp.op = "load_checkpoint"
    /\ Inconsistent(fs[lastOp.path])
    /\ KeyMismatchError(err)
    /\ ~SizeMismatchError(err)

\* load_checkpoint is called on a path at which there is no file
LoadOfMissing ==
    /\ lastOp'.op = "load_checkpoint"
    /\ fs[lastOp'.path].type = "absent"

\* C6: load_checkpoint on a path at which no file exists fails with a
\* not-found error, with no other error type, and returns no model.
C6_MissingFileNotFound ==
    [][LoadOfMissing =>
          /\ err' = Raised("FileNotFoundError", lastOp'.path, {})
          /\ model' = model]_vars

\* C6 witness: load_checkpoint has failed on a path without a file
C6_Witness ==
    /\ lastOp.op = "load_checkpoint"
    /\ fs[lastOp.path].type = "absent"
    /\ err.type = "FileNotFoundError"

\* load_checkpoint is called on a file that exists and is no checkpoint record
LoadOfMalformed ==
    /\ lastOp'.op = "load_checkpoint"
    /\ fs[lastOp'.path].type \in {"OrderedDict", "garbage"}

\* C7 as stated: load_checkpoint on an existing file that is not a full
\* checkpoint record (such as the state-dict-only file of the first
\* torch.save) fails with a not-found/parse error and returns no model.
C7_MalformedParseError ==
    [][LoadOfMalformed =>
          /\ err'.type \in {"FileNotFoundError", "UnpicklingError"}
          /\ model' = model]_vars

\* C7 as amended: load_checkpoint on such a file fails and returns no model;
\* on a file that does not unpickle the error is torch.load's parse error,
\* and on the state-dict-only file, which torch.load reads without error, it
\* is the KeyError of the first descriptor field read, 'input_size'.
C7_MalformedFails ==
    [][LoadOfMalformed =>
          /\ fs[lastOp'.path].type = "garbage" =>
                err' = Raised("UnpicklingError", lastOp'.path, {})
          /\ fs[lastOp'.path].type = "OrderedDict" =>
                err' = Raised("KeyError", "input_size", {})
          /\ model' = model]_vars

\* C7 witness: load_checkpoint has failed on the state-dict-only file
C7_Witness ==
    /\ lastOp.op = "load_checkpoint"
    /\ fs[lastOp.path].type = "OrderedDict"
    /\ err.type = "KeyError"

C9_ConcreteScenario ==
    [][SaveThenLoad /\ DescriptorOf(model) = Descriptor(784, 10, <<400, 200, 100>>) =>
          /\ err' = NoError
          /\ DescriptorOf(model').hidden_layers = <<400, 200, 100>>
          /\ Entry(model'.params, "hidden_layers.0.weight").shape = <<400, 784>>]_vars

\* C9 witness: load_checkpoint has returned the 400/200/100 network from
\* the checkpoint file
C9_Witness ==
    /\ lastOp.op = "load_checkpoint"
    /\ lastOp.path = CheckpointPath
    /\ err = NoError
    /\ fs[CheckpointPath].hidden_layers = <<400, 200, 100>>
    /\ StateDictOf(model) = fs[CheckpointPath].state_dict
    /\ Entry(model.params, "hidden_layers.0.weight").shape = <<400, 784>>

\* C10: save overwrites. After any sequence of saves to checkpoint.pth the
\* file holds only the artifact of the most recent save, and a load that
\* follows observes that artifact and nothing of earlier ones: after the
\* state-dict save it finds no descriptor field, after the checkpoint save
\* it finds the descriptor fields and the parameters just saved.
C10_SaveOverwrites ==
    [][/\ lastOp'.op = "save_checkpoint" =>
            /\ ObjectKeys(fs'[CheckpointPath]) =
                   {"input_size", "output_size", "hidden_layers", "state_dict"}
            /\ fs'[CheckpointPath].hidden_layers = DescriptorOf(model').hidden_layers
            /\ fs'[CheckpointPath].state_dict = StateDictOf(model')
       /\ lastOp'.op = "save_state_dict" =>
            /\ ObjectKeys(fs'[CheckpointPath]) = KeysOf(StateDictOf(model'))
            /\ fs'[CheckpointPath].state_dict = StateDictOf(model')
       /\ lastOp.op = "save_state_dict" /\ lastOp'.op = "load_checkpoint"
             /\ lastOp'.path = CheckpointPath =>
            err' = Raised("KeyError", "input_size", {})
       /\ SaveThenLoad =>
            /\ err'.type \notin {"FileNotFoundError", "UnpicklingError", "KeyError"}
            /\ err' = NoError => StateDictOf(model') = StateDictOf(model)]_vars

\* C10 witness: the checkpoint cell has replaced the state-dict-only file
C10_Witness ==
    /\ lastOp.op = "save_checkpoint"
    /\ lastOp.over = "OrderedDict"
    /\ fs[CheckpointPath].type = "dict"

(***************************************************************************)
(* Specification: the cells in any order, with the parameters of the last  *)
(* completed checkpoint save remembered                                    *)
(***************************************************************************)
\* model = fc_model.Network(input_size, output_size, hidden_layers): one network
\* per run, so that every state dict met is one of that network
SnapshotInit ==
    /\ \E d \in Descriptors, v \in DataVals :
           model = Network(d.input_size, d.output_size, d.hidden_layers, v)
    /\ state_dict = <<>>
    /\ fs = [p \in Paths |-> NoFile]
    /\ err = NoError
    /\ lastOp = [op |-> "create", path |-> "", repeated |-> FALSE, over |-> ""]
    /\ pc = "train"
    /\ trained = <<>>
    /\ AuxInit

\* fc_model.train(model, ...) between a save and a load
SnapTrainModel(v) ==
    /\ TrainModel(v)
    /\ UNCHANGED <<pc, trained, snapshot, stepVars, loop>>

SnapSaveStateDict ==
    /\ SaveStateDict
    /\ UNCHANGED <<pc, trained, snapshot, stepVars, loop>>

SnapLoadStateDictFile ==
    /\ LoadStateDictFile
    /\ UNCHANGED <<pc, trained, snapshot, stepVars, loop>>

SnapLoadIntoModel ==
    /\ LoadIntoModel
    /\ UNCHANGED <<pc, trained, snapshot, stepVars, loop>>

\* torch.save(checkpoint, 'checkpoint.pth') has returned
SnapSaveCheckpoint ==
    /\ SaveCheckpoint
    /\ snapshot' = StateDictOf(model)
    /\ UNCHANGED <<pc, trained, stepVars, loop>>

SnapLoadCheckpoint(v) ==
    /\ LoadCheckpoint(CheckpointPath, v)
    /\ UNCHANGED <<pc, trained, snapshot, stepVars, loop>>

SnapshotNext ==
    \/ \E v \in DataVals : SnapTrainModel(v)
    \/ SnapSaveStateDict
    \/ SnapLoadStateDictFile
    \/ SnapLoadIntoModel
    \/ SnapSaveCheckpoint
    \/ \E v \in DataVals : SnapLoadCheckpoint(v)

SnapshotSpec == SnapshotInit /\ [][SnapshotNext]_vars

\* the file at 'checkpoint.pth' is a checkpoint written by the save cell
CheckpointOnFile == fs[CheckpointPath].type = "dict"

\* C11: the parameters stored by a completed checkpoint save are a copy taken
\* at save time: whatever is done to the model afterwards (training, a
\* load_state_dict, a rebinding), the stored parameters stay those the model had
\* when the save completed, and a load of that file that returns a model returns
\* one with exactly those parameters
C11_SavedCopyFrozen ==
    /\ CheckpointOnFile => fs[CheckpointPath].state_dict = snapshot
    /\ (CheckpointOnFile /\ lastOp.op = "load_checkpoint" /\ err = NoError)
          => StateDictOf(model) = snapshot

\* after the save a load_state_dict has given the model other parameters, and
\* the file still holds those of the save
C11_Witness ==
    /\ CheckpointOnFile
    /\ lastOp.op = "load_state_dict"
    /\ err = NoError
    /\ StateDictOf(model) # snapshot
    /\ fs[CheckpointPath].state_dict = snapshot

(***************************************************************************)
(* Specification: torch.save and load_checkpoint statement by statement,   *)
(* with the identity of the Network instances, the open files and the      *)
(* permissions of the paths                                                *)
(***************************************************************************)
\* instances constructed in one run
MaxObjects == 3

\* what the steps of a call never touch
stepFrame == <<state_dict, pc, trained, snapshot, loop>>

\* fc_model.train(model, ...): the optimizer updates the tensors of the instance
\* `model` is bound to
StTrainModel(v) ==
    /\ frame.op = "idle"
    /\ TrainModel(v)
    /\ heap' = [heap EXCEPT ![modelId] = model']
    /\ UNCHANGED <<pc, trained, snapshot, loop, modelId, frame, handles, writable>>

\* the permissions of a path change (chmod, a read-only mount)
SetWritable(path) ==
    /\ frame.op = "idle"
    /\ writable' = IF path \in writable THEN writable \ {path} ELSE writable \cup {path}
    /\ UNCHANGED <<model, fs, err, lastOp, stepFrame, heap, modelId, frame, handles>>

StEditDescriptor(path, d) ==
    /\ frame.op = "idle"
    /\ EditDescriptor(path, d)
    /\ UNCHANGED <<pc, trained, aux>>

\* checkpoint = {...} is built and torch.save(checkpoint, 'checkpoint.pth') is
\* entered; or torch.save(model.state_dict(), 'checkpoint.pth')
SaveCall(cell) ==
    /\ frame.op = "idle"
    /\ frame' = [IdleFrame EXCEPT
                    !.op = cell, !.pc = "open", !.path = CheckpointPath,
                    !.checkpoint = IF cell = "save_checkpoint"
                                   THEN CheckpointOf(model)
                                   ELSE PickledStateDict(StateDictOf(model))]
    /\ err' = NoError
    /\ lastOp' = Ran(cell, CheckpointPath)
    /\ UNCHANGED <<model, fs, stepFrame, heap, modelId, handles, writable>>

\* open(f, 'wb') that succeeds whatever the permissions of the path
SaveOpenAnyway ==
    /\ frame.op \in {"save_checkpoint", "save_state_dict"}
    /\ frame.pc = "open"
    /\ handles' = handles \cup {[path |-> frame.path, mode |-> "wb"]}
    /\ fs' = [fs EXCEPT ![frame.path] = PartialFile]
    /\ frame' = [frame EXCEPT !.pc = "write"]
    /\ UNCHANGED <<model, err, lastOp, stepFrame, heap, modelId, writable>>

\* torch.save opens the file: open(f, 'wb') raises on a path that cannot be
\* written, and truncates the file otherwise
SaveOpen ==
    /\ frame.op \in {"save_checkpoint", "save_state_dict"}
    /\ frame.pc = "open"
    /\ IF frame.path \in writable
       THEN /\ handles' = handles \cup {[path |-> frame.path, mode |-> "wb"]}
            /\ fs' = [fs EXCEPT ![frame.path] = PartialFile]
            /\ frame' = [frame EXCEPT !.pc = "write"]
            /\ UNCHANGED err
       ELSE /\ err' = Raised("PermissionError", frame.path, {})
            /\ frame' = IdleFrame
            /\ UNCHANGED <<handles, fs>>
    /\ UNCHANGED <<model, lastOp, stepFrame, heap, modelId, writable>>

\* a write that is attempted again after it failed
SaveWriteRetrying(ok) ==
    /\ frame.op \in {"save_checkpoint", "save_state_dict"}
    /\ frame.pc = "write"
    /\ IF ok
       THEN /\ fs' = [fs EXCEPT ![frame.path] = frame.checkpoint]
            /\ frame' = [frame EXCEPT !.pc = "close", !.writes = @ + 1]
       ELSE /\ fs' = fs
            /\ frame' = [frame EXCEPT !.pc = IF frame.writes = 0 THEN "write" ELSE "close",
                                      !.writes = @ + 1,
                                      !.exc = IF frame.writes = 0 THEN NoError
                                              ELSE Raised("OSError", frame.path, {})]
    /\ UNCHANGED <<model, err, lastOp, stepFrame, heap, modelId, handles, writable>>

\* the pickled object is written; the write either completes or fails part-way
\* (the disk is full, the device fails)
SaveWrite(ok) ==
    /\ frame.op \in {"save_checkpoint", "save_state_dict"}
    /\ frame.pc = "write"
    /\ IF ok
       THEN /\ fs' = [fs EXCEPT ![frame.path] = frame.checkpoint]
            /\ frame' = [frame EXCEPT !.pc = "close", !.writes = @ + 1]
       ELSE /\ fs' = fs
            /\ frame' = [frame EXCEPT !.pc = "close", !.writes = @ + 1,
                                      !.exc = Raised("OSError", frame.path, {})]
    /\ UNCHANGED <<model, err, lastOp, stepFrame, heap, modelId, handles, writable>>

\* the file closed only when the write completed
SaveCloseOnSuccess ==
    /\ frame.op \in {"save_checkpoint", "save_state_dict"}
    /\ frame.pc = "close"
    /\ handles' = IF frame.exc = NoError
                  THEN handles \ {[path |-> frame.path, mode |-> "wb"]}
                  ELSE handles
    /\ err' = frame.exc
    /\ frame' = IdleFrame
    /\ UNCHANGED <<model, fs, lastOp, stepFrame, heap, modelId, writable>>

\* torch.save leaves its file context: the file is closed, then the call
\* returns or the exception of the write propagates
SaveClose ==
    /\ frame.op \in {"save_checkpoint", "save_state_dict"}
    /\ frame.pc = "close"
    /\ handles' = handles \ {[path |-> frame.path, mode |-> "wb"]}
    /\ err' = frame.exc
    /\ frame' = IdleFrame
    /\ UNCHANGED <<model, fs, lastOp, stepFrame, heap, modelId, writable>>

\* model = load_checkpoint(filepath) is entered
LoadCall(filepath) ==
    /\ frame.op = "idle"
    /\ Len(heap) < MaxObjects
    /\ frame' = [IdleFrame EXCEPT !.op = "load_checkpoint", !.pc = "open",
                                  !.path = filepath, !.base = Len(heap)]
    /\ err' = NoError
    /\ lastOp' = Ran("load_checkpoint", filepath)
    /\ UNCHANGED <<model, fs, stepFrame, heap, modelId, handles, writable>>

\* torch.load opens the file: open(f, 'rb') raises when there is none
LoadOpen ==
    /\ frame.op = "load_checkpoint"
    /\ frame.pc = "open"
    /\ IF fs[frame.path].type = "absent"
       THEN /\ err' = torch_load(fs, frame.path).err
            /\ frame' = IdleFrame
            /\ UNCHANGED handles
       ELSE /\ handles' = handles \cup {[path |-> frame.path, mode |-> "rb"]}
            /\ frame' = [frame EXCEPT !.pc = "read"]
            /\ UNCHANGED err
    /\ UNCHANGED <<model, fs, lastOp, stepFrame, heap, modelId, writable>>

\* checkpoint = torch.load(filepath): the file is read and unpickled
LoadRead ==
    /\ frame.op = "load_checkpoint"
    /\ frame.pc = "read"
    /\ LET loaded == torch_load(fs, frame.path) IN
        frame' = [frame EXCEPT !.pc = "close", !.reads = @ + 1,
                               !.checkpoint = loaded.obj, !.exc = loaded.err]
    /\ UNCHANGED <<model, fs, err, lastOp, stepFrame, heap, modelId, handles, writable>>

\* torch.load leaves its file context: the file is closed, then the object is
\* returned or the exception of the read propagates out of load_checkpoint
LoadClose ==
    /\ frame.op = "load_checkpoint"
    /\ frame.pc = "close"
    /\ handles' = handles \ {[path |-> frame.path, mode |-> "rb"]}
    /\ IF frame.exc = NoError
       THEN /\ frame' = [frame EXCEPT !.pc = "construct"]
            /\ UNCHANGED err
       ELSE /\ err' = frame.exc
            /\ frame' = IdleFrame
    /\ UNCHANGED <<model, fs, lastOp, stepFrame, heap, modelId, writable>>

\* model = fc_model.Network(checkpoint['input_size'], checkpoint['output_size'],
\*                          checkpoint['hidden_layers'])
\* a new instance, bound to the local `model` of load_checkpoint
LoadConstruct(v) ==
    /\ frame.op = "load_checkpoint"
    /\ frame.pc = "construct"
    /\ IF FirstMissingKey(frame.checkpoint) # ""
       THEN /\ err' = Raised("KeyError", FirstMissingKey(frame.checkpoint), {})
            /\ frame' = IdleFrame
            /\ UNCHANGED heap
       ELSE /\ heap' = Append(heap, Network(frame.checkpoint.input_size,
                                            frame.checkpoint.output_size,
                                            frame.checkpoint.hidden_layers, v))
            /\ frame' = [frame EXCEPT !.pc = "copy", !.local = Len(heap) + 1]
            /\ UNCHANGED err
    /\ UNCHANGED <<model, fs, lastOp, stepFrame, modelId, handles, writable>>

\* the state dict copied into the instance the global `model` is bound to
LoadCopyIntoGlobal ==
    /\ frame.op = "load_checkpoint"
    /\ frame.pc = "copy"
    /\ LET res == load_state_dict(heap[modelId], frame.checkpoint.state_dict) IN
        /\ model' = res.model
        /\ IF res.err = NoError
           THEN /\ heap' = [heap EXCEPT ![modelId] = res.model]
                /\ frame' = [frame EXCEPT !.pc = "return"]
                /\ UNCHANGED err
           ELSE /\ heap' = [heap EXCEPT ![modelId] = res.model, ![frame.local] = Freed]
                /\ err' = res.err
                /\ frame' = IdleFrame
    /\ UNCHANGED <<fs, lastOp, stepFrame, modelId, handles, writable>>

\* model.load_state_dict(checkpoint['state_dict']) on the local `model`
LoadCopy ==
    /\ frame.op = "load_checkpoint"
    /\ frame.pc = "copy"
    /\ LET res == load_state_dict(heap[frame.local], frame.checkpoint.state_dict) IN
        IF res.err = NoError
        THEN /\ heap' = [heap EXCEPT ![frame.local] = res.model]
             /\ frame' = [frame EXCEPT !.pc = "return"]
             /\ UNCHANGED err
        ELSE /\ heap' = [heap EXCEPT ![frame.local] = Freed]
             /\ err' = res.err
             /\ frame' = IdleFrame
    /\ UNCHANGED <<model, fs, lastOp, stepFrame, modelId, handles, writable>>

\* return model
LoadReturn ==
    /\ frame.op = "load_checkpoint"
    /\ frame.pc = "return"
    /\ frame' = [frame EXCEPT !.pc = "assign"]
    /\ UNCHANGED <<model, fs, err, lastOp, stepFrame, heap, modelId, handles, writable>>

\* the assignment of the cell, model = load_checkpoint(...): the global is bound
\* to the returned instance and the instance it was bound to is released
LoadAssign ==
    /\ frame.op = "load_checkpoint"
    /\ frame.pc = "assign"
    /\ modelId' = frame.local
    /\ model' = heap[frame.local]
    /\ heap' = [heap EXCEPT ![modelId] = Freed]
    /\ frame' = IdleFrame
    /\ UNCHANGED <<fs, err, lastOp, stepFrame, handles, writable>>

StepNext ==
    \/ \E v \in DataVals : StTrainModel(v)
    \/ SetWritable(CheckpointPath)
    \/ \E p \in Paths, d \in Descriptors : StEditDescriptor(p, d)
    \/ \E cell \in {"save_checkpoint", "save_state_dict"} : SaveCall(cell)
    \/ SaveOpen
    \/ \E ok \in BOOLEAN : SaveWrite(ok)
    \/ SaveClose
    \/ \E p \in Paths : LoadCall(p)
    \/ LoadOpen
    \/ LoadRead
    \/ LoadClose
    \/ \E v \in DataVals : LoadConstruct(v)
    \/ LoadCopy
    \/ LoadReturn
    \/ LoadAssign

\* the state after model = fc_model.Network(784, 10, [512, 256, 128]): one
\* instance, which `model` is bound to
StepInit ==
    /\ \E v \in DataVals : model = Network(784, 10, NotebookHidden1, v)
    /\ state_dict = <<>>
    /\ fs = [p \in Paths |-> NoFile]
    /\ err = NoError
    /\ lastOp = [op |-> "create", path |-> "", repeated |-> FALSE, over |-> ""]
    /\ pc = "train"
    /\ trained = <<>>
    /\ snapshot = <<>>
    /\ heap = <<model>>
    /\ modelId = 1
    /\ frame = IdleFrame
    /\ handles = {}
    /\ writable = Paths
    /\ loop = NoLoop

StepSpec == StepInit /\ [][StepNext]_vars

\* the global `model` is the instance it is bound to
StepTypeOK ==
    /\ modelId \in 1..Len(heap)
    /\ heap[modelId] = model
    /\ Len(heap) <= MaxObjects

\* a statement of load_checkpoint, from the opening of the file to `return model`
InLoadCheckpoint == frame.op = "load_checkpoint" /\ frame.pc # "assign"

\* C12: load_checkpoint reads the file, then constructs a new Network from the
\* descriptor it read, then copies the stored parameters into that instance and
\* returns it; the instance returned did not exist when the call began, and no
\* statement of the call changes an instance that did
C12_LoadBuildsFreshInstance ==
    [][InLoadCheckpoint =>
         /\ \A i \in 1..frame.base : heap'[i] = heap[i]
         /\ model' = model /\ modelId' = modelId
         /\ frame'.pc = "construct" =>
               /\ frame.pc = "close" /\ frame.reads = 1
               /\ frame.checkpoint = fs[frame.path]
               /\ Len(heap) = frame.base
         /\ frame'.pc = "copy" =>
               /\ frame.pc = "construct"
               /\ frame'.local = frame.base + 1 /\ Len(heap') = frame.base + 1
               /\ DescriptorOf(heap'[frame'.local]) =
                     Descriptor(frame.checkpoint.input_size, frame.checkpoint.output_size,
                                frame.checkpoint.hidden_layers)
         /\ frame'.pc = "return" =>
               /\ frame.pc = "copy"
               /\ StateDictOf(heap'[frame.local]) = frame.checkpoint.state_dict
         /\ frame'.pc = "assign" =>
               /\ frame.pc = "return"
               /\ frame.local > frame.base
               /\ frame.local # modelId
               /\ StateDictOf(heap[frame.local]) = frame.checkpoint.state_dict
    ]_vars

\* load_checkpoint has returned an instance whose parameters differ from those
\* of the instance `model` is still bound to
C12_Witness ==
    /\ frame.op = "load_checkpoint" /\ frame.pc = "assign"
    /\ frame.local > frame.base
    /\ heap[modelId] = model
    /\ StateDictOf(heap[frame.local]) # StateDictOf(model)

\* no call is in progress and the cell that ran last is a torch.save
SaveEnded ==
    /\ frame.op = "idle"
    /\ lastOp.op \in {"save_checkpoint", "save_state_dict"}

\* no call is in progress and the cell that ran last is a load_checkpoint
LoadEnded ==
    /\ frame.op = "idle"
    /\ lastOp.op = "load_checkpoint"

InSave == frame.op \in {"save_checkpoint", "save_state_dict"}

C15_AtMostOnce ==
    [][/\ frame'.writes <= 1
       /\ frame'.reads <= 1
       /\ frame.exc # NoError =>
             /\ frame.pc = "close"
             /\ frame' = IdleFrame
             /\ err' = frame.exc
       /\ (frame.op # "idle" /\ err' # NoError) =>
             /\ frame' = IdleFrame
             /\ model' = model /\ modelId' = modelId
    ]_vars

\* the one write of a save has failed and the call is about to end with OSError
C15_Witness ==
    /\ InSave
    /\ frame.pc = "close"
    /\ frame.writes = 1
    /\ frame.exc.type = "OSError"

SizeMismatch(k, from_checkpoint, in_model) ==
    [kind |-> "size mismatch", key |-> k,
     from_checkpoint |-> from_checkpoint, in_model |-> in_model]

\* the parameters present in the state dict and in the model with another shape
Mismatching ==
    {k \in KeysOf(StateDictOf(model)) \cap KeysOf(state_dict) :
        Entry(state_dict, k).shape # Entry(StateDictOf(model), k).shape}

\* C17: when load_state_dict has raised in the cell that loads the saved state
\* dict into another architecture, its message has, for each parameter of
\* mismatching shape, one entry that gives the shape stored in the checkpoint
\* and the shape in the current model, and has such entries for no other parameter
C17_MessageNamesBothShapes ==
    lastOp.op = "other_architecture" =>
        /\ \A k \in Mismatching :
              SizeMismatch(k, Entry(state_dict, k).shape,
                           Entry(StateDictOf(model), k).shape) \in err.msgs
        /\ \A msg \in err.msgs :
              msg.kind = "size mismatch" =>
                 /\ msg.key \in Mismatching
                 /\ msg.from_checkpoint # msg.in_model
                 /\ msg = SizeMismatch(msg.key, Entry(state_dict, msg.key).shape,
                                       Entry(StateDictOf(model), msg.key).shape)

\* the message recorded in the notebook: the state dict of (784, 10, [512, 256,
\* 128]) loaded into (784, 10, [400, 200, 100])
C17_Witness ==
    /\ lastOp.op = "other_architecture"
    /\ err.type = "RuntimeError"
    /\ {msg \in err.msgs : msg.kind = "size mismatch"} =
         {SizeMismatch("hidden_layers.0.weight", <<512, 784>>, <<400, 784>>),
          SizeMismatch("hidden_layers.0.bias", <<512>>, <<400>>),
          SizeMismatch("hidden_layers.1.weight", <<256, 512>>, <<200, 400>>),
          SizeMismatch("hidden_layers.1.bias", <<256>>, <<200>>),
          SizeMismatch("hidden_layers.2.weight", <<128, 256>>, <<100, 200>>),
          SizeMismatch("hidden_layers.2.bias", <<128>>, <<100>>),
          SizeMismatch("output.weight", <<10, 128>>, <<10, 100>>)}

\* the names state_dict() gives the parameters of a network of n hidden layers
ParamNames(n) ==
    {HiddenKeys[i].weight : i \in 1..n} \cup {HiddenKeys[i].bias : i \in 1..n}
       \cup {OutputKeys.weight, OutputKeys.bias}

\* a stored tensor: a name with the dimensions and the content of the tensor
IsTensor(entry) ==
    /\ DOMAIN entry = {"key", "shape", "data"}
    /\ Len(entry.shape) \in {1, 2}
    /\ \A j \in 1..Len(entry.shape) : entry.shape[j] \in Nat \ {0}

\* C18: the file the checkpoint save cell has written is one dictionary with
\* exactly the fields input_size (an integer), output_size (an integer),
\* hidden_layers (a list of integers) and state_dict (the weight and the bias
\* tensor of every layer, by name); hidden_layers has one entry per hidden layer
\* of the saved model, in layer order, each the number of rows of that layer's weight
C18_RecordFormat ==
    lastOp.op = "save_checkpoint" =>
        LET file == fs[CheckpointPath]
            n == Len(model.hidden_layers)
        IN  /\ file.type = "dict"
            /\ ObjectKeys(file) = {"input_size", "output_size", "hidden_layers", "state_dict"}
            /\ file.input_size \in Nat
            /\ file.output_size \in Nat
            /\ Len(file.hidden_layers) = n
            /\ \A i \in 1..n :
                  /\ file.hidden_layers[i] \in Nat
                  /\ file.hidden_layers[i] = model.hidden_layers[i].out_features
                  /\ Entry(file.state_dict, HiddenKeys[i].weight).shape[1] = file.hidden_layers[i]
                  /\ Entry(file.state_dict, HiddenKeys[i].bias).shape = <<file.hidden_layers[i]>>
            /\ KeysOf(file.state_dict) = ParamNames(n)
            /\ Len(file.state_dict) = 2 * n + 2
            /\ \A i \in 1..Len(file.state_dict) : IsTensor(file.state_dict[i])

\* the save cell has written the record of the network of three hidden layers
\* the notebook trains
C18_Witness ==
    /\ lastOp.op = "save_checkpoint"
    /\ fs[CheckpointPath].type = "dict"
    /\ fs[CheckpointPath].hidden_layers = <<512, 256, 128>>
    /\ Len(fs[CheckpointPath].state_dict) = 8

(***************************************************************************)
(* The training loops of the Inference and Validation notebook: the loop   *)
(* with the validation pass ("first") and the loop of the network with     *)
(* dropout ("dropout"), statement by statement; the training loop of the   *)
(* Training Neural Networks notebook ("training"); the inference cell      *)
(***************************************************************************)
\* epochs = 30
Epochs == 2

\* DataLoader(..., batch_size=64)
BatchSize == 2

\* len(trainset), len(testset)
TrainSetSize == 5
TestSetSize == 3

\* loss.item() of a batch is one of 1..MaxLoss
MaxLoss == 2

LossVals == 1..MaxLoss

\* the sizes of the batches a DataLoader over n samples yields (drop_last=False)
BatchSizes(n) ==
    [i \in 1..((n + BatchSize - 1) \div BatchSize) |->
        IF i * BatchSize <= n THEN BatchSize ELSE n - (i - 1) * BatchSize]

\* trainloader, testloader: the batches of the data sets of this run
Loaders == [trainloader |-> BatchSizes(loop.ntrain), testloader |-> BatchSizes(loop.ntest)]

\* the loader the validation pass of a cell iterates over
ValidationLoader(cell) == IF cell = "first" THEN "trainloader" ELSE "testloader"

\* fractions, for torch.mean of a tensor of booleans
Frac(num, den) == [num |-> num, den |-> den]
FracAdd(x, y) == Frac(x.num * y.den + y.num * x.den, x.den * y.den)
FracEq(x, y) == x.num * y.den = y.num * x.den

\* no forward pass yet
NoForward == [phase |-> "none", loader |-> "", training |-> FALSE, grad |-> FALSE]

\* model = Classifier(); criterion; optimizer; epochs = 30; steps = 0
\* (model = nn.Sequential(...); criterion; optimizer; epochs = 5 in the Training
\* notebook), over a training set of ntrain and a test set of ntest samples.
\* Beside the variables of the cell the record keeps what has happened:
\*   grad_batches  the batches whose gradients .grad holds
\*   stepped       the batches after whose backward pass the optimizer stepped
\*   step_grad     the batches whose gradients the last optimizer step used
\*   order         the statements executed on the current training batch
\*   else_runs     how often the else branch of the batch loop was entered
\*   train_hist    the losses of the training batches of the current epoch
\*   val_hist      the batches of the current validation pass: hits, size, loss
LoopStart(cell, ntrain, ntest) ==
    [cell |-> cell, pc |-> "for_epoch", ntrain |-> ntrain, ntest |-> ntest,
     epoch |-> 0, batch |-> 0,
     training |-> TRUE, grad_enabled |-> TRUE, fwd |-> NoForward,
     grads |-> 0, opt_steps |-> 0, loss |-> 0, hits |-> 0,
     running_loss |-> 0, test_loss |-> 0,
     correct |-> 0, total |-> 0, accuracy |-> Frac(0, 1),
     reported |-> Frac(0, 1), reported_train_loss |-> Frac(0, 1),
     reported_test_loss |-> Frac(0, 1), printed |-> 0,
     grad_batches |-> {}, stepped |-> {}, step_grad |-> {},
     order |-> <<>>, else_runs |-> 0, train_hist |-> <<>>, val_hist |-> <<>>,
     raised |-> ""]

\* the statement raises: the cell ends there
Raise(exception) == [loop EXCEPT !.pc = "raised", !.raised = exception]

\* what the statements of the loops leave alone
notLoop == <<model, state_dict, fs, err, lastOp, pc, trained, snapshot, stepVars>>

\* an epoch loop that does not reset running_loss
ForEpochNoReset ==
    /\ loop.pc = "for_epoch"
    /\ loop' = IF loop.epoch < Epochs
               THEN [loop EXCEPT !.pc = "for_train", !.batch = 0,
                                 !.train_hist = <<>>]
               ELSE [loop EXCEPT !.pc = "done"]
    /\ UNCHANGED notLoop

\* for epoch in range(epochs): running_loss = 0
ForEpoch ==
    /\ loop.pc = "for_epoch"
    /\ loop' = IF loop.epoch < Epochs
               THEN [loop EXCEPT !.pc = "for_train", !.running_loss = 0, !.batch = 0,
                                 !.train_hist = <<>>]
               ELSE [loop EXCEPT !.pc = "done"]
    /\ UNCHANGED notLoop

\* a batch loop whose else branch is skipped when the loader yields no batch
ForTrainBatchNoElseWhenEmpty ==
    /\ loop.pc = "for_train"
    /\ loop' = IF loop.batch < Len(Loaders.trainloader)
               THEN [loop EXCEPT !.pc = IF loop.cell = "training" THEN "view"
                                        ELSE "zero_grad",
                                 !.batch = @ + 1, !.order = <<>>]
               ELSE IF Len(Loaders.trainloader) = 0
               THEN [loop EXCEPT !.pc = "for_epoch", !.epoch = @ + 1]
               ELSE [loop EXCEPT !.pc = "else"]
    /\ UNCHANGED notLoop

\* for images, labels in trainloader: ... else:
ForTrainBatch ==
    /\ loop.pc = "for_train"
    /\ loop' = IF loop.batch < Len(Loaders.trainloader)
               THEN [loop EXCEPT !.pc = IF loop.cell = "training" THEN "view"
                                        ELSE "zero_grad",
                                 !.batch = @ + 1, !.order = <<>>]
               ELSE [loop EXCEPT !.pc = "else"]
    /\ UNCHANGED notLoop

\* images = images.view(images.shape[0], -1)   (Training notebook)
View ==
    /\ loop.pc = "view"
    /\ loop' = [loop EXCEPT !.pc = "zero_grad"]
    /\ UNCHANGED notLoop

\* the batch processed without optimizer.zero_grad()
ZeroGradSkipped ==
    /\ loop.pc = "zero_grad"
    /\ loop' = [loop EXCEPT !.pc = "forward"]
    /\ UNCHANGED notLoop

\* optimizer.zero_grad()
ZeroGrad ==
    /\ loop.pc = "zero_grad"
    /\ loop' = [loop EXCEPT !.pc = "forward", !.grads = 0, !.grad_batches = {},
                            !.order = Append(@, "zero_grad")]
    /\ UNCHANGED notLoop

\* log_ps = model(images)
Forward ==
    /\ loop.pc = "forward"
    /\ loop' = [loop EXCEPT !.pc = "loss",
                            !.fwd = [phase |-> "train", loader |-> "trainloader",
                                     training |-> loop.training,
                                     grad |-> loop.grad_enabled],
                            !.order = Append(@, "forward")]
    /\ UNCHANGED notLoop

\* loss = criterion(log_ps, labels)
Loss(l) ==
    /\ loop.pc = "loss"
    /\ loop' = [loop EXCEPT !.pc = "backward", !.loss = l,
                            !.order = Append(@, "loss")]
    /\ UNCHANGED notLoop

\* loss.backward(): the gradients of the batch are added to .grad
Backward ==
    /\ loop.pc = "backward"
    /\ loop' = [loop EXCEPT !.pc = "step", !.grads = @ + 1,
                            !.grad_batches = @ \cup {<<loop.epoch, loop.batch>>},
                            !.order = Append(@, "backward")]
    /\ UNCHANGED notLoop

\* optimizer.step()
OptimizerStep ==
    /\ loop.pc = "step"
    /\ loop' = [loop EXCEPT !.pc = "running_loss", !.opt_steps = @ + 1,
                            !.step_grad = loop.grad_batches,
                            !.stepped = @ \cup {<<loop.epoch, loop.batch>>},
                            !.order = Append(@, "step")]
    /\ UNCHANGED notLoop

\* running_loss += loss.item()
AddRunningLoss ==
    /\ loop.pc = "running_loss"
    /\ loop' = [loop EXCEPT !.pc = "for_train", !.running_loss = @ + loop.loss,
                            !.train_hist = Append(@, loop.loss)]
    /\ UNCHANGED notLoop

\* else: (test_loss = 0; accuracy = 0;) with torch.no_grad(): (equals = [])
ElseValidation ==
    /\ loop.pc = "else"
    /\ loop.cell \in {"first", "dropout"}
    /\ loop' = IF loop.cell = "first"
               THEN [loop EXCEPT !.pc = "for_validation", !.batch = 0,
                                 !.grad_enabled = FALSE,
                                 !.correct = 0, !.total = 0,
                                 !.else_runs = @ + 1, !.val_hist = <<>>]
               ELSE [loop EXCEPT !.pc = "for_validation", !.batch = 0,
                                 !.grad_enabled = FALSE,
                                 !.test_loss = 0, !.accuracy = Frac(0, 1),
                                 !.else_runs = @ + 1, !.val_hist = <<>>]
    /\ UNCHANGED notLoop

\* else: print(f"Training loss: {running_loss/len(trainloader)}")   (Training notebook)
ElsePrint ==
    /\ loop.pc = "else"
    /\ loop.cell = "training"
    /\ loop' = IF Len(Loaders.trainloader) = 0
               THEN [Raise("ZeroDivisionError") EXCEPT !.else_runs = @ + 1]
               ELSE [loop EXCEPT !.pc = "for_epoch", !.epoch = @ + 1,
                                 !.else_runs = @ + 1,
                                 !.reported_train_loss =
                                     Frac(loop.running_loss, Len(Loaders.trainloader)),
                                 !.printed = @ + 1]
    /\ UNCHANGED notLoop

\* for images, labels in trainloader:  (first loop)
\* for images, labels in testloader:   (dropout loop)
ForValidationBatch ==
    /\ loop.pc = "for_validation"
    /\ loop' = IF loop.batch < Len(Loaders[ValidationLoader(loop.cell)])
               THEN [loop EXCEPT !.pc = "validation_forward", !.batch = @ + 1]
               ELSE [loop EXCEPT !.pc = "validation_end"]
    /\ UNCHANGED notLoop

\* a validation batch that is also trained on
ValidationForwardTraining(c, l) ==
    /\ loop.pc = "validation_forward"
    /\ c <= Loaders[ValidationLoader(loop.cell)][loop.batch]
    /\ loop' = [loop EXCEPT !.pc = "validation_equals",
                            !.fwd = [phase |-> "validation",
                                     loader |-> ValidationLoader(loop.cell),
                                     training |-> loop.training,
                                     grad |-> loop.grad_enabled],
                            !.hits = c,
                            !.test_loss = IF loop.cell = "dropout" THEN @ + l ELSE @,
                            !.grads = @ + 1,
                            !.opt_steps = @ + 1,
                            !.val_hist =
                                Append(@, [hits |-> c,
                                           size |-> Loaders[ValidationLoader(loop.cell)][loop.batch],
                                           loss |-> IF loop.cell = "dropout" THEN l ELSE 0])]
    /\ UNCHANGED notLoop

\* ps = torch.exp(model(images)) / log_ps = model(images); test_loss += ...:
\* the network predicts c of the labels of the batch right, with loss l
ValidationForward(c, l) ==
    /\ loop.pc = "validation_forward"
    /\ c <= Loaders[ValidationLoader(loop.cell)][loop.batch]
    /\ loop' = [loop EXCEPT !.pc = "validation_equals",
                            !.fwd = [phase |-> "validation",
                                     loader |-> ValidationLoader(loop.cell),
                                     training |-> loop.training,
                                     grad |-> loop.grad_enabled],
                            !.hits = c,
                            !.test_loss = IF loop.cell = "dropout" THEN @ + l ELSE @,
                            !.val_hist =
                                Append(@, [hits |-> c,
                                           size |-> Loaders[ValidationLoader(loop.cell)][loop.batch],
                                           loss |-> IF loop.cell = "dropout" THEN l ELSE 0])]
    /\ UNCHANGED notLoop

\* top_p, top_class = ps.topk(1, dim=1)
\* equals.append(top_class == labels.view(*top_class.shape))          (first loop)
\* equals = ...; accuracy += torch.mean(equals.type(torch.FloatTensor)) (dropout loop)
ValidationEquals ==
    /\ loop.pc = "validation_equals"
    /\ LET size == Loaders[ValidationLoader(loop.cell)][loop.batch] IN
        loop' = IF loop.cell = "first"
                THEN [loop EXCEPT !.pc = "for_validation",
                                  !.correct = @ + loop.hits, !.total = @ + size]
                ELSE [loop EXCEPT !.pc = "for_validation",
                                  !.accuracy = FracAdd(@, Frac(loop.hits, size))]
    /\ UNCHANGED notLoop

\* equals = torch.cat(equals); accuracy = torch.mean(...); print(...)  (first loop)
\*   torch.cat raises on an empty list
\* train_losses.append(running_loss/len(trainloader));
\* test_losses.append(test_loss/len(testloader)); print(...)          (dropout loop)
\*   the divisions raise when the loader has no batches
\* the no_grad block has been left, by its end or by the exception
ValidationEnd ==
    /\ loop.pc = "validation_end"
    /\ loop' = IF loop.cell = "first"
               THEN IF loop.total = 0
                    THEN [Raise("RuntimeError") EXCEPT !.grad_enabled = TRUE]
                    ELSE [loop EXCEPT !.pc = "for_epoch", !.epoch = @ + 1,
                                      !.grad_enabled = TRUE,
                                      !.accuracy = Frac(loop.correct, loop.total),
                                      !.reported = Frac(loop.correct, loop.total),
                                      !.printed = @ + 1]
               ELSE IF Len(Loaders.trainloader) = 0 \/ Len(Loaders.testloader) = 0
                    THEN [Raise("ZeroDivisionError") EXCEPT !.grad_enabled = TRUE]
                    ELSE [loop EXCEPT !.pc = "for_epoch", !.epoch = @ + 1,
                                      !.grad_enabled = TRUE,
                                      !.reported_train_loss =
                                          Frac(loop.running_loss, Len(Loaders.trainloader)),
                                      !.reported_test_loss =
                                          Frac(loop.test_loss, Len(Loaders.testloader)),
                                      !.reported =
                                          Frac(loop.accuracy.num,
                                               loop.accuracy.den * Len(Loaders.testloader)),
                                      !.printed = @ + 1]
    /\ UNCHANGED notLoop

(***************************************************************************)
(* The inference cell, run when a training loop of the Inference and       *)
(* Validation notebook has ended                                           *)
(***************************************************************************)
\* the cell without its model.eval()
InferEvalMissing ==
    /\ loop.pc = "done"
    /\ loop.cell \in {"first", "dropout"}
    /\ loop' = [loop EXCEPT !.pc = "infer_data"]
    /\ UNCHANGED notLoop

\* model.eval()
InferEval ==
    /\ loop.pc = "done"
    /\ loop.cell \in {"first", "dropout"}
    /\ loop' = [loop EXCEPT !.pc = "infer_data", !.training = FALSE]
    /\ UNCHANGED notLoop

\* dataiter = iter(testloader); images, labels = dataiter.next()
\* img = images[0]; img = img.view(1, 784)
InferData ==
    /\ loop.pc = "infer_data"
    /\ loop' = IF Len(Loaders.testloader) = 0
               THEN Raise("StopIteration")
               ELSE [loop EXCEPT !.pc = "infer_no_grad"]
    /\ UNCHANGED notLoop

\* with torch.no_grad():
InferNoGrad ==
    /\ loop.pc = "infer_no_grad"
    /\ loop' = [loop EXCEPT !.pc = "infer_forward", !.grad_enabled = FALSE]
    /\ UNCHANGED notLoop

\* output = model.forward(img)
InferForward ==
    /\ loop.pc = "infer_forward"
    /\ loop' = [loop EXCEPT !.pc = "infer_show",
                            !.fwd = [phase |-> "inference", loader |-> "testloader",
                                     training |-> loop.training,
                                     grad |-> loop.grad_enabled]]
    /\ UNCHANGED notLoop

\* the no_grad block is left; ps = torch.exp(output); helper.view_classify(...)
InferShow ==
    /\ loop.pc = "infer_show"
    /\ loop' = [loop EXCEPT !.pc = "inferred", !.grad_enabled = TRUE]
    /\ UNCHANGED notLoop

\* one of the three cells is run: its first statements have built the network
\* (fc1 .. fc4: 784, 256, 128, 64, 10), the criterion and the optimizer. The
\* loop of the Training notebook has no test set; the first loop does not read
\* its test set
LoopInit ==
    /\ model = Network(784, 10, <<256, 128, 64>>, 0)
    /\ state_dict = <<>>
    /\ fs = [p \in Paths |-> NoFile]
    /\ err = NoError
    /\ lastOp = [op |-> "create", path |-> "", repeated |-> FALSE, over |-> ""]
    /\ pc = "train"
    /\ trained = <<>>
    /\ snapshot = <<>>
    /\ heap = <<>>
    /\ modelId = 0
    /\ frame = IdleFrame
    /\ handles = {}
    /\ writable = Paths
    /\ \/ \E ntrain \in 0..TrainSetSize :
              loop = LoopStart("first", ntrain, TestSetSize)
       \/ \E ntrain \in 0..TrainSetSize, ntest \in 0..TestSetSize :
              loop = LoopStart("dropout", ntrain, ntest)
       \/ \E ntrain \in 0..TrainSetSize :
              loop = LoopStart("training", ntrain, 0)

LoopNext ==
    \/ ForEpoch
    \/ ForTrainBatch
    \/ View
    \/ ZeroGrad
    \/ Forward
    \/ \E l \in LossVals : Loss(l)
    \/ Backward
    \/ OptimizerStep
    \/ AddRunningLoss
    \/ ElseValidation
    \/ ElsePrint
    \/ ForValidationBatch
    \/ \E c \in 0..BatchSize, l \in LossVals : ValidationForward(c, l)
    \/ ValidationEquals
    \/ ValidationEnd
    \/ InferEval
    \/ InferData
    \/ InferNoGrad
    \/ InferForward
    \/ InferShow

LoopSpec == LoopInit /\ [][LoopNext]_vars

\* a forward pass of the validation pass has just run
ValidationPassRan == loop.pc = "validation_equals"

\* C19 as stated: in the first training loop the validation pass computes the
\* accuracy over the batches of the test set (testloader)
C19_ValidatesOnTestSet ==
    (loop.cell = "first" /\ ValidationPassRan) => loop.fwd.loader = "testloader"

\* C20 as stated: in the loop of the network with dropout every forward pass of
\* training runs with the model in train mode and every forward pass of the
\* validation pass runs with the model in eval mode
C20_EvalModeInValidation ==
    loop.cell = "dropout" =>
        /\ loop.fwd.phase = "train" => loop.fwd.training
        /\ loop.fwd.phase = "validation" => ~loop.fwd.training

(***************************************************************************)
(* Claims on the training loops and on the inference cell                  *)
(***************************************************************************)
\* the training batches of the current epoch that have been processed up to
\* and including optimizer.step()
BatchesStepped ==
    IF loop.pc \in {"view", "zero_grad", "forward", "loss", "backward", "step"}
    THEN loop.batch - 1
    ELSE IF loop.pc \in {"running_loss", "for_train"} THEN loop.batch
    ELSE IF loop.pc \in {"else", "for_validation", "validation_forward",
                         "validation_equals", "validation_end"}
    THEN Len(Loaders.trainloader)
    ELSE 0

\* C21: in each of the three training loops every batch is processed in the
\* order zero_grad, forward, loss, backward, step; the gradients are cleared
\* before the backward pass, so the optimizer step uses the gradient of exactly
\* the current batch; and every batch processed has caused exactly one step
C21_OneBatchOneStep ==
    loop.pc \notin {"idle", "raised"} =>
        /\ loop.pc \in {"forward", "loss", "backward"} => loop.grad_batches = {}
        /\ loop.pc = "step" =>
              /\ loop.order = <<"zero_grad", "forward", "loss", "backward">>
              /\ loop.grad_batches = {<<loop.epoch, loop.batch>>}
              /\ loop.grads = 1
        /\ loop.pc = "running_loss" =>
              /\ loop.order = <<"zero_grad", "forward", "loss", "backward", "step">>
              /\ loop.step_grad = {<<loop.epoch, loop.batch>>}
        /\ loop.stepped =
              {<<e, b>> : e \in 0..(loop.epoch - 1), b \in 1..Len(Loaders.trainloader)}
                 \cup {<<loop.epoch, b>> : b \in 1..BatchesStepped}
        /\ loop.opt_steps = Cardinality(loop.stepped)

\* the optimizer has stepped on the second batch of the second epoch with the
\* gradient of that batch alone
C21_Witness ==
    /\ loop.pc = "running_loss"
    /\ loop.cell = "training"
    /\ loop.epoch = 1 /\ loop.batch = 2
    /\ loop.step_grad = {<<1, 2>>}
    /\ loop.opt_steps = Len(Loaders.trainloader) + 2

\* the examples predicted right, and the examples seen, in the batches of a
\* validation pass
RECURSIVE SumHits(_)
SumHits(hist) ==
    IF hist = <<>> THEN 0 ELSE Head(hist).hits + SumHits(Tail(hist))

RECURSIVE SumSizes(_)
SumSizes(hist) ==
    IF hist = <<>> THEN 0 ELSE Head(hist).size + SumSizes(Tail(hist))

\* the accuracy of an epoch has been printed and no later validation pass
\* has started
AccuracyReported ==
    /\ loop.cell \in {"first", "dropout"}
    /\ loop.printed > 0
    /\ loop.pc \notin {"for_validation", "validation_forward",
                       "validation_equals", "validation_end", "raised"}

\* C22: the accuracy reported for an epoch is the number of examples of the
\* evaluated set predicted right divided by the number of examples of that
\* set, in both loops of the notebook and for every batching of the set
C22_AccuracyIsFractionCorrect ==
    AccuracyReported =>
        FracEq(loop.reported, Frac(SumHits(loop.val_hist), SumSizes(loop.val_hist)))

\* the cell is between the last training batch of an epoch and the start of
\* the next epoch
InValidationPass ==
    loop.pc \in {"else", "for_validation", "validation_forward",
                 "validation_equals", "validation_end"}

\* C23: a validation pass does not update the model: no step between the end
\* of the training batches of an epoch and the start of the next epoch runs
\* the optimizer or a backward pass, so the parameters, the optimizer's step
\* count and the gradients are the same after the step as before it
C23_ValidationLeavesModel ==
    [][InValidationPass =>
          /\ model' = model
          /\ loop'.opt_steps = loop.opt_steps
          /\ loop'.stepped = loop.stepped
          /\ loop'.grads = loop.grads
          /\ loop'.grad_batches = loop.grad_batches]_vars

\* the validation pass of the first epoch of the dropout loop has ended after
\* two validation batches, and the optimizer has stepped once per training
\* batch of the epoch
C23_Witness ==
    /\ loop.cell = "dropout"
    /\ loop.pc = "for_epoch"
    /\ loop.epoch = 1 /\ loop.printed = 1
    /\ Len(loop.val_hist) = 2
    /\ loop.opt_steps = Len(Loaders.trainloader)
    /\ loop.opt_steps > 0

\* C24: the inference cell puts the model in evaluation mode before its
\* forward pass and runs the forward pass with gradients turned off: the model
\* is in evaluation mode from model.eval() on, and the prediction is computed
\* in evaluation mode and without gradients
C24_InferenceInEvalMode ==
    /\ loop.pc \in {"infer_data", "infer_no_grad", "infer_forward",
                    "infer_show", "inferred"} => ~loop.training
    /\ loop.pc = "infer_forward" => ~loop.grad_enabled
    /\ loop.fwd.phase = "inference" => ~loop.fwd.training /\ ~loop.fwd.grad

\* the inference cell has computed its prediction after the dropout loop,
\* whose forward passes all ran in train mode
C24_Witness ==
    /\ loop.cell = "dropout"
    /\ loop.pc = "infer_show"
    /\ loop.fwd.phase = "inference"
    /\ loop.epoch = Epochs

\* the else branch of the batch loop of the current epoch has been entered
ElseEntered ==
    loop.pc \in {"for_validation", "validation_forward", "validation_equals",
                 "validation_end", "raised"}

\* C25: in both loops the else branch of the batch loop, which holds the
\* validation pass, is entered exactly once per epoch, after the last training
\* batch of the epoch and before the first training batch of the next one,
\* also when the training loader yields no batch
C25_ValidationOncePerEpoch ==
    loop.cell \in {"first", "dropout"} =>
        /\ loop.else_runs = IF ElseEntered THEN loop.epoch + 1 ELSE loop.epoch
        /\ ElseEntered =>
              /\ \A b \in 1..Len(Loaders.trainloader) : <<loop.epoch, b>> \in loop.stepped
              /\ \A s \in loop.stepped : s[1] <= loop.epoch
        /\ loop.pc \in {"done", "infer_data", "infer_no_grad", "infer_forward",
                        "infer_show", "inferred"} => loop.else_runs = Epochs

\* the validation pass of the second epoch of the first loop has run its
\* batches, after both training batches of that epoch
C25_Witness ==
    /\ loop.cell = "first"
    /\ loop.pc = "validation_end"
    /\ loop.epoch = 1
    /\ loop.else_runs = 2
    /\ Len(Loaders.trainloader) >= 2
    /\ Len(loop.val_hist) = Len(Loaders.trainloader)

\* the sum of the losses of the training batches of an epoch
RECURSIVE SumLoss(_)
SumLoss(hist) ==
    IF hist = <<>> THEN 0 ELSE Head(hist) + SumLoss(Tail(hist))

\* the sum of the losses of the batches of a validation pass
RECURSIVE SumValLoss(_)
SumValLoss(hist) ==
    IF hist = <<>> THEN 0 ELSE Head(hist).loss + SumValLoss(Tail(hist))

\* the sum of the accuracies of the batches of a validation pass
RECURSIVE SumMeans(_)
SumMeans(hist) ==
    IF hist = <<>> THEN Frac(0, 1)
    ELSE FracAdd(Frac(Head(hist).hits, Head(hist).size), SumMeans(Tail(hist)))

\* the figures of an epoch have been printed and the next epoch has not begun
EpochReported == loop.pc = "for_epoch" /\ loop.printed > 0

\* C26: the accumulators carry nothing from one epoch to the next: running_loss
\* (and test_loss and accuracy in the dropout loop) hold the contributions of
\* the batches of the current epoch only, so the training loss, test loss and
\* accuracy reported for an epoch come from the batches of that epoch alone
C26_AccumulatorsPerEpoch ==
    /\ loop.running_loss = SumLoss(loop.train_hist)
    /\ loop.cell = "dropout" =>
          /\ loop.test_loss = SumValLoss(loop.val_hist)
          /\ loop.pc # "validation_equals" =>
                FracEq(loop.accuracy, SumMeans(loop.val_hist))
    /\ (EpochReported /\ loop.cell \in {"dropout", "training"}) =>
          /\ Len(loop.train_hist) = Len(Loaders.trainloader)
          /\ FracEq(loop.reported_train_loss,
                    Frac(SumLoss(loop.train_hist), Len(Loaders.trainloader)))
    /\ (EpochReported /\ loop.cell = "dropout") =>
          /\ Len(loop.val_hist) = Len(Loaders.testloader)
          /\ FracEq(loop.reported_test_loss,
                    Frac(SumValLoss(loop.val_hist), Len(Loaders.testloader)))
          /\ FracEq(loop.reported,
                    Frac(SumMeans(loop.val_hist).num,
                         SumMeans(loop.val_hist).den * Len(Loaders.testloader)))

\* the second epoch of the dropout loop has been reported, with a training
\* loss that is the sum of the losses of its own batches
C26_Witness ==
    /\ loop.cell = "dropout"
    /\ EpochReported
    /\ loop.epoch = 2 /\ loop.printed = 2
    /\ Len(loop.train_hist) >= 2
    /\ loop.running_loss = SumLoss(loop.train_hist)
    /\ loop.test_loss > 0
====
